---- MODULE Spec2Model ----
(***************************************************************************)
(* Model of the Trustpilot company scraper: the Search Orchestrator        *)
(* (extractors/company_parser.py), the review fetch                        *)
(* (extractors/review_parser.py) and the Filter Engine                     *)
(* (extractors/utils_filters.py).                                          *)
(*                                                                         *)
(* Conventions.  Python's None is the string None for string-valued        *)
(* fields; dynamically typed numbers are tagged records NoneV, Num(n),     *)
(* Str(s).  Real numbers (ratings, trust scores) are counted in tenths:    *)
(* 4.0 is 40.  An input key of params/config the run never reads keeps     *)
(* the marker Unread.                                                      *)
(***************************************************************************)
EXTENDS Integers, Sequences, FiniteSets, TLC

VARIABLES
    pc,          \* position of the run: start, pages, detail, attach, reviews, done, aborted
    params,      \* the input parameters as read by search_companies
    config,      \* the configuration keys as read by search_companies
    pagesToFetch,\* pages_to_fetch of _search_by_category / _search_by_keyword
    page,        \* loop variable of the listing-page loop
    pageLog,     \* every page fetch issued, in order, with the html _fetch_page returned
    companies,   \* the accumulating company list of the run
    ridx,        \* position of the loop of _attach_reviews_to_companies
    reviewLog,   \* every review fetch issued, in order
    result,      \* the list search_companies returns
    fin,         \* Filter Engine: the input list
    fparams,     \* Filter Engine: the filter parameters
    fout,        \* Filter Engine: the returned list and the input as left by the call
    fout2,       \* Filter Engine: the result of a second call to compare with
    cli,         \* command-line run (main.py): stages executed, warning, exit status
    ext,         \* Structured-Data Extractor on one page: the page and what it gave
    rev          \* review attachment for one company: the inputs and the company after

vars == <<pc, params, config, pagesToFetch, page, pageLog, companies, ridx,
          reviewLog, result, fin, fparams, fout, fout2, cli, ext, rev>>

searchVarsNoPc == <<params, config, pagesToFetch, page, pageLog, companies,
                    ridx, reviewLog, result>>
filterVars == <<fin, fparams, fout, fout2>>
auxVars == <<cli, ext, rev>>

-----------------------------------------------------------------------------
(* Bounds of the model *)

MaxPagesParam == 2      \* largest "pages" / "maxPages" value tried
MaxCards == 4           \* review cards on the richest detail page
MaxList == 2            \* longest company list handed to the Filter Engine

(* Program constants *)

DefaultMaxPages == 5    \* config.get("maxPages", 5)
DefaultPages == 1       \* params.get("pages", 1) or 1
LastReviewsLen == 3     \* reviews[:3]
VerifiedMinRating == 40 \* 4.0, in tenths
VerifiedMinReviews == 50

-----------------------------------------------------------------------------
(* Dynamically typed values *)

None == "None"
Unread == "Unread"
NoneV == [t |-> "none"]
Num(n) == [t |-> "num", v |-> n]
Str(s) == [t |-> "str", v |-> s]

\* Python truthiness of an optional string
Falsy(s) == s \in {None, ""}

\* a or b, for optional strings
OrElse(a, b) == IF Falsy(a) THEN b ELSE a

\* a JSON value that is not a string where a string is expected (a number)
NotAString == "<number>"

\* str.lower() on the strings of the model
Lower(s) ==
    CASE s = "CATEGORY" -> "category"
      [] s = "Keyword" -> "keyword"
      [] s = "Detail" -> "detail"
      [] s = "US" -> "us"
      [] s = "De" -> "de"
      [] s = "DE" -> "de"
      [] s = "Organization" -> "organization"
      [] s = "LocalBusiness" -> "localbusiness"
      [] s = "LOCALBUSINESS" -> "localbusiness"
      [] s = "Person" -> "person"
      [] s = "Thing" -> "thing"
      [] OTHER -> s

-----------------------------------------------------------------------------
(* URLs *)

BaseUrl == "https://tp.com"
UrlA == "https://tp.com/review/a"
UrlA2 == "https://tp.com/review/a2"
RelA == "/review/a"
SiteA == "https://a.com"

\* url.startswith("/")
IsRelative(u) == u = RelA

\* urljoin(base_url, url) for a path-absolute url
urljoin(base, u) == IF u = RelA /\ base = BaseUrl THEN UrlA ELSE u

\* urlparse(url).netloc
Netloc(u) ==
    CASE u \in {UrlA, UrlA2, BaseUrl} -> "tp.com"
      [] u = SiteA -> "a.com"
      [] OTHER -> ""

extract_domain(url) ==
    IF Falsy(url) THEN None
    ELSE IF Netloc(url) = "" THEN None ELSE Netloc(url)

-----------------------------------------------------------------------------
(* Number parsing: float(value) and int(value) on the strings of the model. *)
(* A sequence of length 0 is a ValueError/TypeError, of length 1 the value. *)

ParseFloat(s) ==
    CASE s = "3.9" -> <<39>>
      [] s = "4.0" -> <<40>>
      [] s = "4.5" -> <<45>>
      [] s = "50" -> <<500>>
      [] OTHER -> <<>>

ParseInt(s) ==
    CASE s = "50" -> <<50>>
      [] OTHER -> <<>>

\* company_parser._safe_float: a tagged value to an optional real (tenths)
_safe_float_cp(value) ==
    CASE value.t = "none" -> NoneV
      [] value.t = "num" -> Num(value.v)
      [] value.t = "str" ->
            IF ParseFloat(value.v) = <<>> THEN NoneV ELSE Num(ParseFloat(value.v)[1])

\* company_parser._safe_int
_safe_int(value) ==
    CASE value.t = "none" -> NoneV
      [] value.t = "num" -> Num(value.v)
      [] value.t = "str" ->
            IF ParseInt(value.v) = <<>> THEN NoneV ELSE Num(ParseInt(value.v)[1])

-----------------------------------------------------------------------------
(* Structured-data objects and the Company built from them *)

\* A structured-data object of type Organization: "@id", "url", "sameAs"
\* (a single string), aggregateRating.ratingValue / reviewCount and
\* address.addressCountry.
Item(atid, url, sameAs, rating, count, country) ==
    [atid |-> atid, url |-> url, sameAs |-> sameAs,
     ratingValue |-> rating, reviewCount |-> count, country |-> country]

I1 == Item(None, RelA, SiteA, Num(45), Num(80), "US")   \* ID a.com, source UrlA
I2 == Item("b-id", UrlA2, None, Str("4.0"), Str("50"), "DE") \* ID b-id, source UrlA2
I3 == Item(None, None, None, NoneV, NoneV, None)        \* no identifier at all
I4 == Item(None, None, SiteA, Num(39), Num(49), None)   \* ID a.com, no source url

_company_from_ld_json(data, base_url) ==
    LET url0 == OrElse(OrElse(data.url, data.atid), None)
        url == IF ~Falsy(url0) /\ IsRelative(url0) THEN urljoin(base_url, url0) ELSE url0
        rating_value == _safe_float_cp(data.ratingValue)
        review_count == _safe_int(data.reviewCount)
        country == OrElse(data.country, None)
        website_url == data.sameAs
        domain == extract_domain(OrElse(website_url, url))
    IN  [ID |-> OrElse(data.atid, OrElse(OrElse(domain, url), "")),
         domain |-> domain,
         ratingValue |-> rating_value,
         reviewCount |-> review_count,
         country |-> country,
         sourceUrl |-> url,
         reviews |-> <<>>,
         lastReviews |-> <<>>]

\* Page text: the structured-data objects of its blocks, in document order;
\* empty is the empty string.
Text(blocks) == [empty |-> FALSE, blocks |-> blocks]
EmptyText == [empty |-> TRUE, blocks |-> <<>>]

RECURSIVE parse_from(_, _, _, _, _)
parse_from(items, base_url, i, seen_ids, acc) ==
    IF i > Len(items) THEN acc
    ELSE LET company == _company_from_ld_json(items[i], base_url)
         IN  IF company.ID \notin seen_ids
             THEN parse_from(items, base_url, i + 1, seen_ids \cup {company.ID},
                             Append(acc, company))
             ELSE parse_from(items, base_url, i + 1, seen_ids, acc)

_parse_ld_json_blocks(html, base_url) ==
    parse_from(html.blocks, base_url, 1, {}, <<>>)

-----------------------------------------------------------------------------
(* Page fetcher *)

ErrorResp == [kind |-> "error", ok |-> FALSE, text |-> EmptyText]
HttpResp(ok, text) == [kind |-> "http", ok |-> ok, text |-> text]

NoHtml == [some |-> FALSE, text |-> EmptyText]
SomeHtml(text) == [some |-> TRUE, text |-> text]

\* `not html`
NotHtml(html) == ~html.some \/ html.text.empty

_fetch_page(resp) ==
    IF resp.kind = "error" THEN NoHtml
    ELSE IF ~resp.ok THEN NoHtml
    ELSE SomeHtml(resp.text)

PageTexts == {EmptyText, Text(<<I1>>), Text(<<I2, I3>>), Text(<<I4, I1>>)}

\* transport error, a non-success status (with or without a body), a page
PageResponses ==
    {ErrorResp, HttpResp(FALSE, EmptyText), HttpResp(FALSE, Text(<<I1>>))}
    \cup {HttpResp(TRUE, t) : t \in PageTexts}

-----------------------------------------------------------------------------
(* Input values of params and config *)

UnreadV == [t |-> "unread"]
Bool(b) == [t |-> "bool", v |-> b]

\* Python truthiness of a tagged value
Truthy(value) ==
    CASE value.t = "bool" -> value.v
      [] value.t = "num" -> value.v # 0
      [] value.t = "str" -> value.v # ""
      [] OTHER -> FALSE

SearchTypeInputs == {None, "category", "keyword", "detail", "Detail", "reviews"}
RequiredInputs == {None, "", "x"}
PagesInputs == {NoneV} \cup {Num(n) : n \in -1 .. MaxPagesParam}
MaxPagesInputs == {NoneV} \cup {Num(n) : n \in 0 .. MaxPagesParam}
MaxReviewsInputs == {NoneV, Num(2)}

NoParams ==
    [searchType |-> Unread, required |-> Unread, allPages |-> UnreadV,
     pages |-> UnreadV, includeReviews |-> UnreadV,
     maxReviewsPerCompany |-> UnreadV]
NoConfig == [maxPages |-> UnreadV]

\* (params.get("searchType") or "category").lower()
search_type(p) == Lower(OrElse(p.searchType, "category"))

\* variant: a falsy "pages" is not coerced to 1
_limit_pages_nocoerce(p, c) ==
    IF Truthy(p.allPages)
    THEN IF c.maxPages.t = "none" THEN DefaultMaxPages ELSE c.maxPages.v
    ELSE IF p.pages.t = "none" THEN DefaultPages ELSE p.pages.v

_limit_pages(p, c) ==
    IF Truthy(p.allPages)
    THEN IF c.maxPages.t = "none" THEN DefaultMaxPages ELSE c.maxPages.v
    ELSE IF Truthy(p.pages) THEN p.pages.v ELSE DefaultPages

-----------------------------------------------------------------------------
(* Review fetch *)

Min(a, b) == IF a < b THEN a ELSE b

\* s[:n] for n >= 0
Take(s, n) == SubSeq(s, 1, Min(n, Len(s)))

\* number of review cards on the detail page at url
CardsOn(url) == IF url = UrlA THEN MaxCards ELSE 2

\* The answers to a review fetch: transport error, non-success status, a
\* page with its review cards, a page on which parsing raises.
ReviewResp(kind, ok, cards, bad) == [kind |-> kind, ok |-> ok, cards |-> cards, bad |-> bad]
ReviewResponses(url) ==
    {ReviewResp("error", FALSE, 0, FALSE), ReviewResp("http", FALSE, 0, FALSE),
     ReviewResp("http", TRUE, CardsOn(url), FALSE), ReviewResp("http", TRUE, 0, TRUE)}

\* the reviews of the cards, in document order
_parse_reviews_from_html(resp) == [i \in 1 .. resp.cards |-> i]

\* variant: the cap is applied only when max_reviews is truthy
fetch_reviews_truthy(resp, max_reviews) ==
    IF resp.kind = "error" THEN [raised |-> FALSE, reviews |-> <<>>]
    ELSE IF ~resp.ok THEN [raised |-> FALSE, reviews |-> <<>>]
    ELSE IF resp.bad THEN [raised |-> TRUE, reviews |-> <<>>]
    ELSE LET reviews == _parse_reviews_from_html(resp)
         IN  IF max_reviews.t = "str" THEN [raised |-> TRUE, reviews |-> <<>>]
             ELSE IF max_reviews.t = "num" /\ max_reviews.v > 0
                  THEN [raised |-> FALSE, reviews |-> Take(reviews, max_reviews.v)]
                  ELSE [raised |-> FALSE, reviews |-> reviews]

\* returns the list, or raises
fetch_reviews(resp, max_reviews) ==
    IF resp.kind = "error" THEN [raised |-> FALSE, reviews |-> <<>>]
    ELSE IF ~resp.ok THEN [raised |-> FALSE, reviews |-> <<>>]
    ELSE IF resp.bad THEN [raised |-> TRUE, reviews |-> <<>>]
    ELSE LET reviews == _parse_reviews_from_html(resp)
         IN  IF max_reviews.t = "str" THEN [raised |-> TRUE, reviews |-> <<>>]
             ELSE IF max_reviews.t = "num" /\ max_reviews.v >= 0
                  THEN [raised |-> FALSE, reviews |-> Take(reviews, max_reviews.v)]
                  ELSE [raised |-> FALSE, reviews |-> reviews]

\* variant: lastReviews takes the tail of the list
attach_one_tail(company, resp, max_reviews) ==
    LET r == fetch_reviews(resp, max_reviews)
    IN  IF r.raised THEN company
        ELSE [company EXCEPT
                !.reviews = r.reviews,
                !.lastReviews =
                    IF Len(r.reviews) > LastReviewsLen
                    THEN SubSeq(r.reviews, Len(r.reviews) - LastReviewsLen + 1, Len(r.reviews))
                    ELSE r.reviews]

\* the loop body of _attach_reviews_to_companies for one company
attach_one(company, resp, max_reviews) ==
    LET r == fetch_reviews(resp, max_reviews)
    IN  IF r.raised THEN company
        ELSE [company EXCEPT
                !.reviews = r.reviews,
                !.lastReviews = IF r.reviews # <<>> THEN Take(r.reviews, LastReviewsLen)
                                ELSE <<>>]

\* the fetch did not deliver a review page
ReviewFailed(resp, max_reviews) ==
    resp.kind = "error" \/ ~resp.ok \/ fetch_reviews(resp, max_reviews).raised

-----------------------------------------------------------------------------
(* Global deduplication, search_companies *)

resolved_key(company) ==
    IF Falsy(company.ID)
    THEN OrElse(OrElse(company.domain, company.sourceUrl), "")
    ELSE company.ID

RECURSIVE unique_from(_, _, _, _)
unique_from(cs, i, keys, acc) ==
    IF i > Len(cs) THEN acc
    ELSE LET key == resolved_key(cs[i])
         IN  IF key # "" /\ key \notin keys
             THEN unique_from(cs, i + 1, keys \cup {key}, Append(acc, cs[i]))
             ELSE unique_from(cs, i + 1, keys, acc)

\* variant: a later company with the same key overwrites the kept one
unique_values_last(cs) ==
    LET first == unique_from(cs, 1, {}, <<>>)
        last(key) == CHOOSE k \in 1 .. Len(cs) :
                        /\ resolved_key(cs[k]) = key
                        /\ \A m \in (k + 1) .. Len(cs) : resolved_key(cs[m]) # key
    IN  [i \in 1 .. Len(first) |-> cs[last(resolved_key(first[i]))]]

\* variant: a company with an empty key is kept under the key ""
RECURSIVE unique_from_keep_empty(_, _, _, _)
unique_from_keep_empty(cs, i, keys, acc) ==
    IF i > Len(cs) THEN acc
    ELSE LET key == resolved_key(cs[i])
         IN  IF key \notin keys
             THEN unique_from_keep_empty(cs, i + 1, keys \cup {key}, Append(acc, cs[i]))
             ELSE unique_from_keep_empty(cs, i + 1, keys, acc)

unique_values_keep_empty(cs) == unique_from_keep_empty(cs, 1, {}, <<>>)

unique_values(cs) == unique_from(cs, 1, {}, <<>>)

-----------------------------------------------------------------------------
(* Filter parameters (placeholders of the search run) *)

NoFilterParams ==
    [minTrustScore |-> NoneV, verifiedOnly |-> FALSE, minReviews |-> NoneV,
     country |-> None]
NoFilterOut == [companies |-> <<>>, filtered |-> <<>>]

(* Placeholders of the command-line run, the extractor and the review cap *)
NoCli == [log |-> <<>>, warned |-> FALSE, exit |-> "running", written |-> <<>>]
NoExt == [page |-> <<>>, yielded |-> <<>>, raised |-> FALSE, companies |-> <<>>]
NoRev == [company |-> <<>>, resp |-> <<>>, max_reviews |-> NoneV, after |-> <<>>]

-----------------------------------------------------------------------------
(* The search run: search_companies *)

Init ==
    /\ pc = "start"
    /\ params = NoParams
    /\ config = NoConfig
    /\ pagesToFetch = 0
    /\ page = 1
    /\ pageLog = <<>>
    /\ companies = <<>>
    /\ ridx = 1
    /\ reviewLog = <<>>
    /\ result = <<>>
    /\ fin = <<>>
    /\ fparams = NoFilterParams
    /\ fout = NoFilterOut
    /\ fout2 = <<>>
    /\ cli = NoCli
    /\ ext = NoExt
    /\ rev = NoRev

\* the inputs _limit_pages reads: allPages, then maxPages or pages
LimitInputs(p0) ==
    {<<[p0 EXCEPT !.allPages = Bool(TRUE)], [NoConfig EXCEPT !.maxPages = mp]>> :
        mp \in MaxPagesInputs}
    \cup
    {<<[p0 EXCEPT !.allPages = Bool(FALSE), !.pages = pg], NoConfig>> :
        pg \in PagesInputs}

\* variant: the required parameter is not checked
StartListing_novalidate(mode) ==
    /\ pc = "start"
    /\ \E st \in SearchTypeInputs, req \in RequiredInputs :
        LET p0 == [NoParams EXCEPT !.searchType = st, !.required = req]
        IN  /\ search_type(p0) = mode
            /\ \E pcf \in LimitInputs(p0) :
                    /\ params' = pcf[1]
                    /\ config' = pcf[2]
                    /\ pagesToFetch' = _limit_pages(pcf[1], pcf[2])
                    /\ pc' = "pages"
    /\ UNCHANGED <<page, pageLog, companies, ridx, reviewLog, result, filterVars, auxVars>>

\* entry of _search_by_category / _search_by_keyword: the required parameter,
\* then the page count
StartListing(mode) ==
    /\ pc = "start"
    /\ \E st \in SearchTypeInputs, req \in RequiredInputs :
        LET p0 == [NoParams EXCEPT !.searchType = st, !.required = req]
        IN  /\ search_type(p0) = mode
            /\ IF Falsy(req)
               THEN /\ params' = p0
                    /\ pc' = "aborted"
                    /\ UNCHANGED <<config, pagesToFetch>>
               ELSE \E pcf \in LimitInputs(p0) :
                    /\ params' = pcf[1]
                    /\ config' = pcf[2]
                    /\ pagesToFetch' = _limit_pages(pcf[1], pcf[2])
                    /\ pc' = "pages"
    /\ UNCHANGED <<page, pageLog, companies, ridx, reviewLog, result, filterVars, auxVars>>

_search_by_category_start == StartListing("category")
_search_by_keyword_start == StartListing("keyword")

_search_detail_start ==
    /\ pc = "start"
    /\ \E st \in SearchTypeInputs, req \in RequiredInputs :
        LET p0 == [NoParams EXCEPT !.searchType = st, !.required = req]
        IN  /\ search_type(p0) = "detail"
            /\ params' = p0
            /\ pc' = IF Falsy(req) THEN "aborted" ELSE "detail"
    /\ UNCHANGED <<config, pagesToFetch, page, pageLog, companies, ridx, reviewLog,
                   result, filterVars, auxVars>>

\* raise ValueError(f"Unsupported searchType: {search_type}")
search_companies_unsupported ==
    /\ pc = "start"
    /\ \E st \in SearchTypeInputs :
        LET p0 == [NoParams EXCEPT !.searchType = st]
        IN  /\ search_type(p0) \notin {"category", "keyword", "detail"}
            /\ params' = p0
            /\ pc' = "aborted"
    /\ UNCHANGED <<config, pagesToFetch, page, pageLog, companies, ridx, reviewLog,
                   result, filterVars, auxVars>>

\* variant: a failed page ends the loop
ListingPage_break(mode, path) ==
    /\ pc = "pages"
    /\ search_type(params) = mode
    /\ page <= pagesToFetch
    /\ \E resp \in PageResponses :
        LET html == _fetch_page(resp)
        IN  /\ pageLog' = Append(pageLog,
                    [path |-> path, page |-> page, ok |-> resp.kind = "http" /\ resp.ok,
                     text |-> IF resp.kind = "http" /\ resp.ok THEN resp.text ELSE EmptyText])
            /\ companies' = IF NotHtml(html) THEN companies
                            ELSE companies \o _parse_ld_json_blocks(html.text, BaseUrl)
            /\ page' = IF NotHtml(html) THEN pagesToFetch + 1 ELSE page + 1
    /\ UNCHANGED <<pc, params, config, pagesToFetch, ridx, reviewLog, result, filterVars, auxVars>>

\* one iteration of the listing-page loop
ListingPage(mode, path) ==
    /\ pc = "pages"
    /\ search_type(params) = mode
    /\ page <= pagesToFetch
    /\ \E resp \in PageResponses :
        LET html == _fetch_page(resp)
        IN  /\ pageLog' = Append(pageLog,
                    [path |-> path, page |-> page, ok |-> resp.kind = "http" /\ resp.ok,
                     text |-> IF resp.kind = "http" /\ resp.ok THEN resp.text ELSE EmptyText])
            /\ companies' = IF NotHtml(html) THEN companies
                            ELSE companies \o _parse_ld_json_blocks(html.text, BaseUrl)
    /\ page' = page + 1
    /\ UNCHANGED <<pc, params, config, pagesToFetch, ridx, reviewLog, result, filterVars, auxVars>>

_search_by_category_page == ListingPage("category", "categories")
_search_by_keyword_page == ListingPage("keyword", "search")

_search_detail_page ==
    /\ pc = "detail"
    /\ \E resp \in PageResponses :
        LET html == _fetch_page(resp)
            cs == IF NotHtml(html) THEN <<>> ELSE _parse_ld_json_blocks(html.text, BaseUrl)
        IN  /\ pageLog' = Append(pageLog,
                    [path |-> "review", page |-> 1, ok |-> resp.kind = "http" /\ resp.ok,
                     text |-> IF resp.kind = "http" /\ resp.ok THEN resp.text ELSE EmptyText])
            /\ IF cs = <<>>
               THEN /\ pc' = "done"
                    /\ result' = unique_values(<<>>)
                    /\ UNCHANGED companies
               ELSE /\ pc' = "attach"
                    /\ companies' = cs
                    /\ UNCHANGED result
    /\ UNCHANGED <<params, config, pagesToFetch, page, ridx, reviewLog, filterVars, auxVars>>

\* the listing loop is over, or the detail page gave companies
AtAttach == (pc = "pages" /\ page > pagesToFetch) \/ pc = "attach"

\* _attach_reviews_to_companies without includeReviews, then the deduplication
_attach_reviews_off ==
    /\ AtAttach
    /\ params' = [params EXCEPT !.includeReviews = Bool(FALSE)]
    /\ pc' = "done"
    /\ result' = unique_values(companies)
    /\ UNCHANGED <<config, pagesToFetch, page, pageLog, companies, ridx, reviewLog,
                   filterVars, auxVars>>

\* _attach_reviews_to_companies with includeReviews: enter the loop
_attach_reviews_on ==
    /\ AtAttach
    /\ \E mr \in MaxReviewsInputs :
        params' = [params EXCEPT !.includeReviews = Bool(TRUE),
                                 !.maxReviewsPerCompany = mr]
    /\ ridx' = 1
    /\ IF companies = <<>>
       THEN /\ pc' = "done"
            /\ result' = unique_values(companies)
       ELSE /\ pc' = "reviews"
            /\ UNCHANGED result
    /\ UNCHANGED <<config, pagesToFetch, page, pageLog, companies, reviewLog, filterVars, auxVars>>

\* after iteration ridx: the next iteration, or the deduplication and the return
AfterReview(cs) ==
    /\ ridx' = ridx + 1
    /\ IF ridx = Len(cs)
       THEN /\ pc' = "done"
            /\ result' = unique_values(cs)
       ELSE UNCHANGED <<pc, result>>

\* a company without source URL is passed over
_attach_reviews_skip ==
    /\ pc = "reviews"
    /\ ridx <= Len(companies)
    /\ Falsy(companies[ridx].sourceUrl)
    /\ AfterReview(companies)
    /\ UNCHANGED <<params, config, pagesToFetch, page, pageLog, companies, reviewLog,
                   filterVars, auxVars>>

\* one review fetch
_attach_reviews_fetch ==
    /\ pc = "reviews"
    /\ ridx <= Len(companies)
    /\ ~Falsy(companies[ridx].sourceUrl)
    /\ \E resp \in ReviewResponses(companies[ridx].sourceUrl) :
        /\ reviewLog' = Append(reviewLog,
                [i |-> ridx, url |-> companies[ridx].sourceUrl,
                 failed |-> ReviewFailed(resp, params.maxReviewsPerCompany)])
        /\ companies' = [companies EXCEPT
                ![ridx] = attach_one(@, resp, params.maxReviewsPerCompany)]
    /\ AfterReview(companies')
    /\ UNCHANGED <<params, config, pagesToFetch, page, pageLog, filterVars, auxVars>>

Next ==
    \/ _search_by_category_start
    \/ _search_by_keyword_start
    \/ _search_detail_start
    \/ search_companies_unsupported
    \/ _search_by_category_page
    \/ _search_by_keyword_page
    \/ _search_detail_page
    \/ _attach_reviews_off
    \/ _attach_reviews_on
    \/ _attach_reviews_skip
    \/ _attach_reviews_fetch

Spec == Init /\ [][Next]_vars

\* the run is sequential code: it always takes its next step
FairSpec == Spec /\ WF_vars(Next)

-----------------------------------------------------------------------------
(* Filter Engine: utils_filters.py *)

\* variant: an unparseable value counts as the threshold 0
_safe_float_zero(value) ==
    CASE value.t = "none" -> NoneV
      [] value.t = "num" -> Num(value.v)
      [] value.t = "str" ->
            IF ParseFloat(value.v) = <<>> THEN Num(0) ELSE Num(ParseFloat(value.v)[1])

\* utils_filters._safe_float
_safe_float(value) ==
    CASE value.t = "none" -> NoneV
      [] value.t = "num" -> Num(value.v)
      [] value.t = "str" ->
            IF ParseFloat(value.v) = <<>> THEN NoneV ELSE Num(ParseFloat(value.v)[1])

\* int(min_reviews) if min_reviews is not None else None, None on ValueError
min_reviews_of(value) ==
    CASE value.t = "none" -> NoneV
      [] value.t = "num" -> Num(value.v)
      [] value.t = "str" ->
            IF ParseInt(value.v) = <<>> THEN NoneV ELSE Num(ParseInt(value.v)[1])

_matches_country(company, country) ==
    IF Falsy(country) THEN TRUE
    ELSE IF Falsy(company.country) THEN FALSE
    ELSE Lower(company.country) = Lower(country)

_has_min_reviews(company, minimum) ==
    IF minimum.t = "none" THEN TRUE
    ELSE IF company.reviewCount.t = "none" THEN FALSE
    ELSE company.reviewCount.v >= minimum.v

_meets_min_trust(company, min_trust_score) ==
    IF min_trust_score.t = "none" THEN TRUE
    ELSE LET rating == _safe_float(company.ratingValue)
         IN  IF rating.t = "none" THEN FALSE
             ELSE rating.v >= min_trust_score.v

\* variant: more than 50 reviews are required
_is_verified_strict(company) ==
    IF company.ratingValue.t = "none" \/ company.reviewCount.t = "none" THEN FALSE
    ELSE company.ratingValue.v >= VerifiedMinRating
         /\ company.reviewCount.v > VerifiedMinReviews

_is_verified(company) ==
    IF company.ratingValue.t = "none" \/ company.reviewCount.t = "none" THEN FALSE
    ELSE company.ratingValue.v >= VerifiedMinRating
         /\ company.reviewCount.v >= VerifiedMinReviews

\* the comparison company.ratingValue >= 4.0 is a TypeError on a string
is_verified_raises(company) ==
    /\ company.ratingValue.t = "str"
    /\ company.reviewCount.t # "none"

\* country.lower() is an AttributeError on a truthy non-string
matches_country_raises(company, country) ==
    /\ country = NotAString
    /\ ~Falsy(company.country)

\* the loop of apply_company_filters from position i: the list built, or raised
RECURSIVE filter_from(_, _, _, _, _, _, _)
filter_from(cs, i, min_trust, country, min_reviews, verified_only, acc) ==
    IF i > Len(cs) THEN [raised |-> FALSE, filtered |-> acc]
    ELSE LET company == cs[i]
         IN  IF ~_meets_min_trust(company, min_trust)
             THEN filter_from(cs, i + 1, min_trust, country, min_reviews, verified_only, acc)
             ELSE IF matches_country_raises(company, country)
             THEN [raised |-> TRUE, filtered |-> <<>>]
             ELSE IF ~_matches_country(company, country)
             THEN filter_from(cs, i + 1, min_trust, country, min_reviews, verified_only, acc)
             ELSE IF ~_has_min_reviews(company, min_reviews)
             THEN filter_from(cs, i + 1, min_trust, country, min_reviews, verified_only, acc)
             ELSE IF verified_only /\ is_verified_raises(company)
             THEN [raised |-> TRUE, filtered |-> <<>>]
             ELSE IF verified_only /\ ~_is_verified(company)
             THEN filter_from(cs, i + 1, min_trust, country, min_reviews, verified_only, acc)
             ELSE filter_from(cs, i + 1, min_trust, country, min_reviews, verified_only,
                              Append(acc, company))

\* variant: the loop passes over the first company
apply_company_filters_off_by_one(cs, p) ==
    LET r == filter_from(cs, 2, _safe_float(p.minTrustScore), p.country,
                         min_reviews_of(p.minReviews), p.verifiedOnly, <<>>)
    IN  [raised |-> r.raised, filtered |-> r.filtered, companies |-> cs]

\* variant: the rejected companies are removed from the input list
apply_company_filters_inplace(cs, p) ==
    LET r == filter_from(cs, 1, _safe_float(p.minTrustScore), p.country,
                         min_reviews_of(p.minReviews), p.verifiedOnly, <<>>)
    IN  [raised |-> r.raised, filtered |-> r.filtered, companies |-> r.filtered]

\* the returned list (filtered), whether the call raised, and the input list
\* as the call leaves it (companies)
apply_company_filters(cs, p) ==
    LET min_trust == _safe_float(p.minTrustScore)
        verified_only == p.verifiedOnly
        min_reviews == min_reviews_of(p.minReviews)
        country == p.country
        r == filter_from(cs, 1, min_trust, country, min_reviews, verified_only, <<>>)
    IN  [raised |-> r.raised, filtered |-> r.filtered, companies |-> cs]

\* Companies as the Structured-Data Extractor builds them
FilterItems ==
    {Item("x", None, None, r, n, c) :
        r \in {NoneV, Num(39), Num(40)},
        n \in {NoneV, Num(49), Str("50")},
        c \in {None, "US"}}
FilterCompanies == {_company_from_ld_json(item, BaseUrl) : item \in FilterItems}

FilterLists == UNION {[1 .. n -> FilterCompanies] : n \in 0 .. MaxList}

FilterParamSets ==
    [minTrustScore : {NoneV, Num(40), Str("4.0"), Str("abc")},
     verifiedOnly : BOOLEAN,
     minReviews : {NoneV, Num(50), Str("abc")},
     country : {None, "us", "DE"}]

InitFilter ==
    /\ pc = "filter"
    /\ params = NoParams
    /\ config = NoConfig
    /\ pagesToFetch = 0
    /\ page = 1
    /\ pageLog = <<>>
    /\ companies = <<>>
    /\ ridx = 1
    /\ reviewLog = <<>>
    /\ result = <<>>
    /\ fin \in FilterLists
    /\ fparams \in FilterParamSets
    /\ fout = NoFilterOut
    /\ fout2 = <<>>
    /\ cli = NoCli
    /\ ext = NoExt
    /\ rev = NoRev

\* filtered = apply_company_filters(companies, params)
FilterOnce ==
    /\ pc = "filter"
    /\ LET r == apply_company_filters(fin, fparams)
       IN  /\ fout' = [companies |-> r.companies, filtered |-> r.filtered]
           /\ pc' = IF r.raised THEN "filter_raised" ELSE "filtered"
    /\ UNCHANGED <<searchVarsNoPc, auxVars, fin, fparams, fout2>>

\* apply_company_filters(filtered, params)
FilterAgain ==
    /\ pc = "filtered"
    /\ LET r == apply_company_filters(fout.filtered, fparams)
       IN  /\ fout2' = r.filtered
           /\ pc' = IF r.raised THEN "filter_raised" ELSE "refiltered"
    /\ UNCHANGED <<searchVarsNoPc, auxVars, fin, fparams, fout>>

NextFilter == FilterOnce \/ FilterAgain

SpecFilter == InitFilter /\ [][NextFilter]_vars

-----------------------------------------------------------------------------
(* Review attachment for one company, over every cap and card count *)

\* the search run and the filter at rest
SearchIdle ==
    /\ params = NoParams
    /\ config = NoConfig
    /\ pagesToFetch = 0
    /\ page = 1
    /\ pageLog = <<>>
    /\ companies = <<>>
    /\ ridx = 1
    /\ reviewLog = <<>>
    /\ result = <<>>
FilterIdle ==
    /\ fin = <<>>
    /\ fparams = NoFilterParams
    /\ fout = NoFilterOut
    /\ fout2 = <<>>

\* params.get("maxReviewsPerCompany"): absent, an integer, a string
CapInputs == {NoneV, Str("2")} \cup {Num(n) : n \in (0 - 1) .. (MaxCards + 1)}

\* the answers to the fetch of a detail page, with 0 .. MaxCards review cards
CapResponses ==
    {ReviewResp("error", FALSE, 0, FALSE), ReviewResp("http", FALSE, 0, FALSE),
     ReviewResp("http", TRUE, 0, TRUE)}
    \cup {ReviewResp("http", TRUE, k, FALSE) : k \in 0 .. MaxCards}

CapCompanies == {_company_from_ld_json(item, BaseUrl) : item \in {I1, I2, I3, I4}}

InitReviews ==
    /\ pc = "attach_one"
    /\ SearchIdle
    /\ FilterIdle
    /\ cli = NoCli
    /\ ext = NoExt
    /\ \E c \in CapCompanies, resp \in CapResponses, mr \in CapInputs :
        rev = [company |-> c, resp |-> resp, max_reviews |-> mr, after |-> <<>>]

\* `if not company.sourceUrl: continue`
ReviewsSkip ==
    /\ pc = "attach_one"
    /\ Falsy(rev.company.sourceUrl)
    /\ rev' = [rev EXCEPT !.after = rev.company]
    /\ pc' = "passed_over"
    /\ UNCHANGED <<searchVarsNoPc, filterVars, cli, ext>>

\* one fetch_reviews call and the assignment of its result
ReviewsFetch ==
    /\ pc = "attach_one"
    /\ ~Falsy(rev.company.sourceUrl)
    /\ rev' = [rev EXCEPT !.after = attach_one(rev.company, rev.resp, rev.max_reviews)]
    /\ pc' = IF fetch_reviews(rev.resp, rev.max_reviews).raised
             THEN "fetch_raised" ELSE "attached"
    /\ UNCHANGED <<searchVarsNoPc, filterVars, cli, ext>>

NextReviews == ReviewsSkip \/ ReviewsFetch

SpecReviews == InitReviews /\ [][NextReviews]_vars

-----------------------------------------------------------------------------
(* The filter on unparseable thresholds *)

\* minTrustScore and minReviews: absent, a number, a string that is no number
MalformedParamSets ==
    [minTrustScore : {NoneV, Num(40), Str("abc")},
     verifiedOnly : BOOLEAN,
     minReviews : {NoneV, Num(50), Str("abc"), Str("4.5")},
     country : {None, "us"}]

\* float(value) fails / int(value) fails
UnparseableFloat(value) == value.t = "str" /\ ParseFloat(value.v) = <<>>
UnparseableInt(value) == value.t = "str" /\ ParseInt(value.v) = <<>>

\* the parameters without the keys that hold an unparseable value
WithoutMalformed(p) ==
    [p EXCEPT !.minTrustScore = IF UnparseableFloat(@) THEN NoneV ELSE @,
              !.minReviews = IF UnparseableInt(@) THEN NoneV ELSE @]

InitFilterMalformed ==
    /\ pc = "filter"
    /\ SearchIdle
    /\ fin \in FilterLists
    /\ fparams \in MalformedParamSets
    /\ fout = NoFilterOut
    /\ fout2 = <<>>
    /\ cli = NoCli
    /\ ext = NoExt
    /\ rev = NoRev

\* apply_company_filters on the same list, the malformed keys left out
FilterWithoutMalformed ==
    /\ pc = "filtered"
    /\ LET r == apply_company_filters(fin, WithoutMalformed(fparams))
       IN  /\ fout2' = r.filtered
           /\ pc' = IF r.raised THEN "filter_raised" ELSE "compared"
    /\ UNCHANGED <<searchVarsNoPc, auxVars, fin, fparams, fout>>

NextFilterMalformed == FilterOnce \/ FilterWithoutMalformed

SpecFilterMalformed == InitFilterMalformed /\ [][NextFilterMalformed]_vars

-----------------------------------------------------------------------------
(* The filter on companies whose rating is a numeric string *)

StringRatings == {"3.9", "4.0", "4.5"}

\* Company(ratingValue = "4.5", ...): the dataclass takes the value as given
StrRatedCompanies ==
    {[_company_from_ld_json(Item("x", None, None, NoneV, n, c), BaseUrl)
        EXCEPT !.ratingValue = Str(s)] :
        s \in StringRatings, n \in {NoneV, Num(49), Num(80)}, c \in {None, "US"}}

StrRatedLists == UNION {[1 .. n -> StrRatedCompanies] : n \in 0 .. MaxList}

\* the same companies with the real number the string denotes
AsNumber(c) ==
    IF c.ratingValue.t = "str" /\ ParseFloat(c.ratingValue.v) # <<>>
    THEN [c EXCEPT !.ratingValue = Num(ParseFloat(c.ratingValue.v)[1])]
    ELSE c
AllAsNumber(cs) == [i \in 1 .. Len(cs) |-> AsNumber(cs[i])]

InitFilterStr ==
    /\ pc = "filter"
    /\ SearchIdle
    /\ fin \in StrRatedLists
    /\ fparams \in FilterParamSets
    /\ fout = NoFilterOut
    /\ fout2 = <<>>
    /\ cli = NoCli
    /\ ext = NoExt
    /\ rev = NoRev

\* apply_company_filters on the list with real-number ratings
FilterAsNumber ==
    /\ pc \in {"filtered", "filter_raised"}
    /\ LET r == apply_company_filters(AllAsNumber(fin), fparams)
       IN  /\ fout2' = r.filtered
           /\ pc' = IF pc = "filter_raised" THEN "compared_after_raise"
                    ELSE IF r.raised THEN "number_raised" ELSE "compared"
    /\ UNCHANGED <<searchVarsNoPc, auxVars, fin, fparams, fout>>

NextFilterStr == FilterOnce \/ FilterAsNumber

SpecFilterStr == InitFilterStr /\ [][NextFilterStr]_vars

-----------------------------------------------------------------------------
(* The command-line run: main.py *)

\* the stages of main, in program order
Stages == <<"load_input", "load_config", "search", "filter", "export">>

Ran(stage, ok) == [stage |-> stage, ok |-> ok]

\* what load_json(input_path) delivers: an error, a non-object, an object
MainInputs ==
    {[kind |-> "raises", params |-> NoFilterParams],
     [kind |-> "not_dict", params |-> NoFilterParams]}
    \cup {[kind |-> "dict",
           params |-> [minTrustScore |-> NoneV, verifiedOnly |-> FALSE,
                       minReviews |-> mr, country |-> c]] :
            mr \in {NoneV, Num(50)}, c \in {None, "us", NotAString}}

InitMain ==
    /\ pc = "main_input"
    /\ SearchIdle
    /\ FilterIdle
    /\ cli = NoCli
    /\ ext = NoExt
    /\ rev = NoRev

\* a stage failed: sys.exit(1)
Exit1(stage) ==
    /\ cli' = [cli EXCEPT !.log = Append(@, Ran(stage, FALSE)), !.exit = "1"]
    /\ pc' = "exited"

\* params = load_json(input_path); isinstance(params, dict)
main_load_input ==
    /\ pc = "main_input"
    /\ \E in \in MainInputs :
        IF in.kind = "dict"
        THEN /\ fparams' = in.params
             /\ cli' = [cli EXCEPT !.log = Append(@, Ran("load_input", TRUE))]
             /\ pc' = "main_config"
        ELSE /\ Exit1("load_input")
             /\ UNCHANGED fparams
    /\ UNCHANGED <<searchVarsNoPc, fin, fout, fout2, ext, rev>>

\* config = load_config(config_path)
main_load_config ==
    /\ pc = "main_config"
    /\ \E ok \in BOOLEAN :
        IF ok
        THEN /\ cli' = [cli EXCEPT !.log = Append(@, Ran("load_config", TRUE))]
             /\ pc' = "main_search"
        ELSE Exit1("load_config")
    /\ UNCHANGED <<searchVarsNoPc, filterVars, ext, rev>>

\* companies = search_companies(params, config): a list, or an exception
main_search ==
    /\ pc = "main_search"
    /\ \/ /\ \E cs \in FilterLists : fin' = cs
          /\ cli' = [cli EXCEPT !.log = Append(@, Ran("search", TRUE))]
          /\ pc' = "main_filter"
       \/ /\ Exit1("search")
          /\ UNCHANGED fin
    /\ UNCHANGED <<searchVarsNoPc, fparams, fout, fout2, ext, rev>>

\* variant: a filter failure is logged and the unfiltered list goes on
main_filter_continue ==
    /\ pc = "main_filter"
    /\ LET r == apply_company_filters(fin, fparams)
           kept == IF r.raised THEN fin ELSE r.filtered
       IN  /\ fout' = [companies |-> r.companies, filtered |-> kept]
           /\ cli' = [cli EXCEPT !.log = Append(@, Ran("filter", ~r.raised)),
                                 !.warned = (kept = <<>>)]
           /\ pc' = "main_export"
    /\ UNCHANGED <<searchVarsNoPc, fin, fparams, fout2, ext, rev>>

\* companies = apply_company_filters(companies, params), then the warning on
\* an empty list
main_filter ==
    /\ pc = "main_filter"
    /\ LET r == apply_company_filters(fin, fparams)
       IN  IF r.raised
           THEN /\ Exit1("filter")
                /\ UNCHANGED fout
           ELSE /\ fout' = [companies |-> r.companies, filtered |-> r.filtered]
                /\ cli' = [cli EXCEPT !.log = Append(@, Ran("filter", TRUE)),
                                      !.warned = (r.filtered = <<>>)]
                /\ pc' = "main_export"
    /\ UNCHANGED <<searchVarsNoPc, fin, fparams, fout2, ext, rev>>

\* export_companies(companies, output_path), then the return of main
main_export ==
    /\ pc = "main_export"
    /\ \E ok \in BOOLEAN :
        IF ok
        THEN /\ cli' = [cli EXCEPT !.log = Append(@, Ran("export", TRUE)),
                                   !.written = <<fout.filtered>>,
                                   !.exit = "0"]
             /\ pc' = "exited"
        ELSE Exit1("export")
    /\ UNCHANGED <<searchVarsNoPc, filterVars, ext, rev>>

NextMain == main_load_input \/ main_load_config \/ main_search \/ main_filter \/ main_export

SpecMain == InitMain /\ [][NextMain]_vars

-----------------------------------------------------------------------------
(* Structured-Data Extractor on scripts of any shape *)

MaxBlocks == 2

\* the value under "@type": missing, a string, a list, something else
TMissing == [k |-> "missing", v |-> <<>>]
TStr(s) == [k |-> "str", v |-> <<Str(s)>>]
TList(entries) == [k |-> "list", v |-> entries]
TOther == [k |-> "other", v |-> <<>>]

\* the value under "aggregateRating": missing, a mapping, a falsy value that
\* is no mapping (""), a truthy value that is no mapping ("4.5")
AggMissing == [k |-> "missing", ratingValue |-> NoneV, reviewCount |-> NoneV]
AggDict(rating, count) == [k |-> "dict", ratingValue |-> rating, reviewCount |-> count]
AggFalsy == [k |-> "falsy", ratingValue |-> NoneV, reviewCount |-> NoneV]
AggStr == [k |-> "str", ratingValue |-> NoneV, reviewCount |-> NoneV]

\* the value under "address": missing, a mapping, a list whose first entry is
\* a mapping, a string
AddrMissing == [k |-> "missing", country |-> None]
AddrDict(country) == [k |-> "dict", country |-> country]
AddrList(country) == [k |-> "list", country |-> country]
AddrStr == [k |-> "str", country |-> None]

\* one item of a script: a mapping with its keys, or a value that is none
RawObject(type, atid, url, sameAs, agg, address) ==
    [map |-> TRUE, type |-> type, atid |-> atid, url |-> url, sameAs |-> sameAs,
     agg |-> agg, address |-> address]
NotAMapping == [map |-> FALSE, type |-> TMissing, atid |-> None, url |-> None,
                sameAs |-> None, agg |-> AggMissing, address |-> AddrMissing]

NoCompany == <<>>
Yield(out, company) == [out |-> out, company |-> company]

\* [t.lower() for t in at_type] raises on an entry that is no string
type_list_raises(type) ==
    type.k = "list" /\ \E i \in 1 .. Len(type.v) : type.v[i].t # "str"

\* types, lines 102-108
types_of(type) ==
    IF type.k \in {"str", "list"}
    THEN {Lower(type.v[i].v) : i \in 1 .. Len(type.v)}
    ELSE {}

AllowedTypes == {"organization", "localbusiness"}

\* the type gate, line 110
is_business(type) == types_of(type) \cap AllowedTypes # {}

\* _company_from_ld_json on an item of any shape: no company, a Company, or
\* an exception
_company_from_ld_json_raw(data, base_url) ==
    IF ~data.map THEN Yield("none", NoCompany)
    ELSE IF type_list_raises(data.type) THEN Yield("raised", NoCompany)
    ELSE IF ~is_business(data.type) THEN Yield("none", NoCompany)
    ELSE LET url == OrElse(OrElse(data.url, data.atid), None)
         IN  IF url = NotAString THEN Yield("raised", NoCompany)  \* url.startswith
             ELSE IF data.agg.k = "str" THEN Yield("raised", NoCompany)  \* agg.get
             ELSE Yield("company",
                        _company_from_ld_json(
                            Item(data.atid, data.url, data.sameAs,
                                 data.agg.ratingValue, data.agg.reviewCount,
                                 IF data.address.k \in {"dict", "list"}
                                 THEN data.address.country ELSE None),
                            base_url))

\* a script element: text that json.loads rejects, or the items of its value
MalformedScript == [json |-> "malformed", items |-> <<>>]
Script(items) == [json |-> "value", items |-> items]

\* the items of one script from position i on: the outcomes item by item, the
\* companies appended, and whether an exception left the loop
RECURSIVE items_from(_, _, _, _, _, _)
items_from(items, base_url, i, seen_ids, acc, outs) ==
    IF i > Len(items)
    THEN [raised |-> FALSE, companies |-> acc, seen_ids |-> seen_ids, yielded |-> outs]
    ELSE LET y == _company_from_ld_json_raw(items[i], base_url)
             outs1 == Append(outs, [item |-> items[i], out |-> y.out])
         IN  IF y.out = "raised"
             THEN [raised |-> TRUE, companies |-> acc, seen_ids |-> seen_ids,
                   yielded |-> outs1]
             ELSE IF y.out = "company" /\ y.company.ID \notin seen_ids
             THEN items_from(items, base_url, i + 1, seen_ids \cup {y.company.ID},
                             Append(acc, y.company), outs1)
             ELSE items_from(items, base_url, i + 1, seen_ids, acc, outs1)

RawTypes ==
    {TMissing, TOther, TStr("Organization"), TStr("LOCALBUSINESS"), TStr("Person"),
     TList(<<Str("Thing"), Str("LocalBusiness")>>), TList(<<Str("Person")>>),
     TList(<<Str("Organization"), Num(5)>>), TList(<<Num(5), Str("Person")>>)}

\* the objects on a page: every type, over well-formed and malformed fields
RawObjects ==
    {RawObject(type, None, RelA, SiteA, AggDict(Num(45), Str("80")), AddrDict("US")) :
        type \in RawTypes}
    \cup {RawObject(type, "b-id", UrlA2, None, AggFalsy, AddrStr) : type \in RawTypes}
    \cup {RawObject(type, None, None, None, AggMissing, AddrList("DE")) : type \in RawTypes}
    \cup {RawObject(type, None, RelA, SiteA, AggStr, AddrMissing) : type \in RawTypes}
    \cup {RawObject(type, None, NotAString, SiteA, AggMissing, AddrMissing) :
            type \in RawTypes}

RawScripts ==
    {MalformedScript, Script(<<>>),
     Script(<<NotAMapping,
              RawObject(TStr("Organization"), None, RelA, SiteA,
                        AggDict(Num(45), Str("80")), AddrDict("US"))>>)}
    \cup {Script(<<o>>) : o \in RawObjects}

\* a page with 1 .. MaxBlocks script elements
RawPages == UNION {[1 .. n -> RawScripts] : n \in 1 .. MaxBlocks}

InitExtract ==
    /\ pc = "scripts"
    /\ SearchIdle
    /\ FilterIdle
    /\ cli = NoCli
    /\ rev = NoRev
    /\ \E scripts \in RawPages :
        ext = [page |-> scripts, yielded |-> <<>>, raised |-> FALSE, companies |-> <<>>]

\* the scripts handled so far
ScriptsDone == Len(ext.yielded)

\* json.loads fails on the next script: continue
_parse_ld_json_blocks_malformed ==
    /\ pc = "scripts"
    /\ ScriptsDone < Len(ext.page)
    /\ ext.page[ScriptsDone + 1].json = "malformed"
    /\ ext' = [ext EXCEPT !.yielded = Append(@, <<>>)]
    /\ pc' = IF ScriptsDone + 1 = Len(ext.page) THEN "parsed" ELSE "scripts"
    /\ UNCHANGED <<searchVarsNoPc, filterVars, cli, rev>>

\* the items of the next script
_parse_ld_json_blocks_items ==
    /\ pc = "scripts"
    /\ ScriptsDone < Len(ext.page)
    /\ ext.page[ScriptsDone + 1].json = "value"
    /\ LET r == items_from(ext.page[ScriptsDone + 1].items, BaseUrl, 1,
                           {ext.companies[k].ID : k \in 1 .. Len(ext.companies)},
                           ext.companies, <<>>)
       IN  /\ ext' = [ext EXCEPT !.yielded = Append(@, r.yielded),
                                 !.raised = r.raised,
                                 !.companies = IF r.raised THEN <<>> ELSE r.companies]
           /\ pc' = IF r.raised THEN "parse_raised"
                    ELSE IF ScriptsDone + 1 = Len(ext.page) THEN "parsed"
                    ELSE "scripts"
    /\ UNCHANGED <<searchVarsNoPc, filterVars, cli, rev>>

NextExtract == _parse_ld_json_blocks_malformed \/ _parse_ld_json_blocks_items

SpecExtract == InitExtract /\ [][NextExtract]_vars

-----------------------------------------------------------------------------
(* Properties *)

Listing == search_type(params) \in {"category", "keyword"}
IncludeReviews == params.includeReviews = Bool(TRUE)

\* the key of the identity fold: the ID, else the domain, else the source URL
KeyOf(c) ==
    IF c.ID # "" /\ c.ID # None THEN c.ID
    ELSE IF c.domain # "" /\ c.domain # None THEN c.domain
    ELSE IF c.sourceUrl # "" /\ c.sourceUrl # None THEN c.sourceUrl
    ELSE ""

\* position in cs of the first company with the key of c (0 if there is none)
FirstPos(cs, c) ==
    IF \E k \in 1 .. Len(cs) : KeyOf(cs[k]) = KeyOf(c)
    THEN CHOOSE k \in 1 .. Len(cs) :
            /\ KeyOf(cs[k]) = KeyOf(c)
            /\ \A m \in 1 .. (k - 1) : KeyOf(cs[m]) # KeyOf(c)
    ELSE 0

\* C1: the list search_companies returns never holds two entries with the same
\* resolved key (ID, else domain, else source URL); the entry kept for a key is
\* the first accumulated company with that key; and the kept entries stand in
\* the order of their first appearance.
C1_DedupFirstWins ==
    pc = "done" =>
        /\ \A i, j \in 1 .. Len(result) :
                i # j => KeyOf(result[i]) # KeyOf(result[j])
        /\ \A i \in 1 .. Len(result) :
                /\ FirstPos(companies, result[i]) > 0
                /\ result[i] = companies[FirstPos(companies, result[i])]
        /\ \A i, j \in 1 .. Len(result) :
                i < j => FirstPos(companies, result[i]) < FirstPos(companies, result[j])
        /\ \A k \in 1 .. Len(companies) :
                KeyOf(companies[k]) # "" =>
                    \E i \in 1 .. Len(result) : KeyOf(result[i]) = KeyOf(companies[k])

\* a run whose accumulated list holds two different companies with one key,
\* and a third key after them
C1_Witness ==
    /\ pc = "done"
    /\ \E k, m \in 1 .. Len(companies) :
        /\ k < m
        /\ KeyOf(companies[k]) # ""
        /\ KeyOf(companies[k]) = KeyOf(companies[m])
        /\ companies[k] # companies[m]
    /\ Len(result) >= 1
    /\ Len(result) < Len(companies)

-----------------------------------------------------------------------------

\* the threshold a well-formed numeric filter input stands for
ThresholdOf(value, parse(_)) == IF value.t = "num" THEN value.v ELSE parse(value.v)[1]

HasMinTrust(p) == p.minTrustScore.t # "none"
HasMinReviews(p) == p.minReviews.t # "none"
HasCountry(p) == p.country # None /\ p.country # ""

\* the numeric filter inputs are absent or parseable
WellFormed(p) ==
    /\ p.minTrustScore.t = "str" => ParseFloat(p.minTrustScore.v) # <<>>
    /\ p.minReviews.t = "str" => ParseInt(p.minReviews.v) # <<>>

PassesAll(c, p) ==
    /\ HasMinTrust(p) =>
            /\ c.ratingValue.t = "num"
            /\ c.ratingValue.v >= ThresholdOf(p.minTrustScore, ParseFloat)
    /\ HasCountry(p) =>
            /\ c.country # None
            /\ Lower(c.country) = Lower(p.country)
    /\ HasMinReviews(p) =>
            /\ c.reviewCount.t = "num"
            /\ c.reviewCount.v >= ThresholdOf(p.minReviews, ParseInt)
    /\ p.verifiedOnly =>
            /\ c.ratingValue.t = "num" /\ c.ratingValue.v >= 40
            /\ c.reviewCount.t = "num" /\ c.reviewCount.v >= 50

C3_Idempotent ==
    pc = "refiltered" => fout2 = fout.filtered

\* a second pass over a list the first pass has shortened but not emptied
C3_Witness ==
    /\ pc = "refiltered"
    /\ fout.filtered # <<>>
    /\ Len(fout.filtered) < Len(fin)
    /\ fout2 # <<>>

RECURSIVE IsSubsequence(_, _)
IsSubsequence(a, b) ==
    IF a = <<>> THEN TRUE
    ELSE IF b = <<>> THEN FALSE
    ELSE IF Head(a) = Head(b) THEN IsSubsequence(Tail(a), Tail(b))
    ELSE IsSubsequence(a, Tail(b))

\* C4: apply_company_filters is pure and order-preserving: the returned list is
\* a subsequence of the input list, and the input list with the fields of its
\* companies is as before the call.
C4_PureSubsequence ==
    pc \in {"filtered", "refiltered"} =>
        /\ IsSubsequence(fout.filtered, fin)
        /\ fout.companies = fin

\* a call that keeps two different companies and one that drops a company
C4_Witness ==
    /\ pc = "filtered"
    /\ Len(fin) = 2
    /\ fin[1] # fin[2]
    /\ \/ Len(fout.filtered) = 2
       \/ Len(fout.filtered) = 1 /\ fout.filtered[1] = fin[2]

-----------------------------------------------------------------------------

RECURSIVE CompaniesOfPages(_, _)
\* the companies of the pages of the log whose fetch succeeded, in page order
CompaniesOfPages(log, i) ==
    IF i > Len(log) THEN <<>>
    ELSE (IF log[i].ok THEN _parse_ld_json_blocks(log[i].text, BaseUrl) ELSE <<>>)
         \o CompaniesOfPages(log, i + 1)

\* a company list without the attached reviews
WithoutReviews(cs) ==
    [i \in 1 .. Len(cs) |-> [cs[i] EXCEPT !.reviews = <<>>, !.lastReviews = <<>>]]

LoopOver == pc \in {"reviews", "done"}

\* an abort happens at validation only, before the page loop is entered
AbortsBeforeLoop == pc = "aborted" => (params.allPages = UnreadV /\ pageLog = <<>>)

C5_Accumulated ==
    /\ AbortsBeforeLoop
    /\ (Listing /\ pc \in {"pages", "reviews", "done"}) =>
        /\ WithoutReviews(companies) = CompaniesOfPages(pageLog, 1)
        /\ LoopOver => {pageLog[i].page : i \in 1 .. Len(pageLog)} = 1 .. pagesToFetch
        /\ pc = "done" =>
            /\ \A r \in 1 .. Len(result) :
                    \E k \in 1 .. Len(companies) : result[r] = companies[k]
            /\ {KeyOf(result[r]) : r \in 1 .. Len(result)}
                    = {KeyOf(c) : c \in {CompaniesOfPages(pageLog, 1)[k] :
                                         k \in 1 .. Len(CompaniesOfPages(pageLog, 1))}}
                      \ {""}

\* C5: in category and keyword mode, whatever listing-page fetches fail, the
\* run does not abort: a failed page is skipped, every remaining page is still
\* attempted, the run terminates, and the result is built from the companies
\* of exactly the pages whose fetch succeeded, accumulated in page order.
C5_FetchFailuresSkipped ==
    /\ []C5_Accumulated
    /\ (pc = "pages") ~> (pc = "done")

\* a finished listing run in which a failed page is followed by a page that
\* gave companies
C5_Witness ==
    /\ pc = "done"
    /\ Listing
    /\ \E i, j \in 1 .. Len(pageLog) :
        /\ i < j
        /\ ~pageLog[i].ok
        /\ pageLog[j].ok
        /\ pageLog[j].text.blocks # <<>>
    /\ result # <<>>

-----------------------------------------------------------------------------

SupportedTypes == {"category", "keyword", "detail"}

\* the search type the run works with: lower-cased, category when absent or empty
EffectiveType ==
    IF params.searchType = None \/ params.searchType = ""
    THEN "category" ELSE Lower(params.searchType)

NothingFetched ==
    /\ pc = "aborted"
    /\ pageLog = <<>>
    /\ reviewLog = <<>>
    /\ companies = <<>>
    /\ result = <<>>

\* C6 as stated: a searchType that is none of category/keyword/detail, or a
\* missing or empty required parameter, aborts the run before any fetch.
C6_AsStated ==
    (pc # "start" /\ pc \notin {"filter", "filtered", "refiltered", "filter_raised"}) =>
        ((params.searchType \notin SupportedTypes \/ params.required \in {None, "", Unread})
            => NothingFetched)

\* C6: search_companies validates before fetching: when the search type it
\* works with (the given one lower-cased, category when absent or empty) is
\* none of category/keyword/detail, or when the mode's required parameter is
\* missing or empty, the run aborts, no fetch is issued and no list returned.
C6_ValidatedBeforeFetch ==
    pc # "start" =>
        ((EffectiveType \notin SupportedTypes \/ params.required \in {None, ""})
            => NothingFetched)

\* an aborted detail run with an empty domain
C6_Witness ==
    /\ pc = "aborted"
    /\ params.searchType = "Detail"
    /\ params.required = ""

-----------------------------------------------------------------------------

\* the page count of the policy, from the inputs
PolicyPageCount ==
    IF params.allPages.t = "bool" /\ params.allPages.v
    THEN IF config.maxPages.t = "num" THEN config.maxPages.v ELSE 5
    ELSE IF params.pages.t = "num" /\ params.pages.v # 0 THEN params.pages.v ELSE 1

ListingPath == IF search_type(params) = "category" THEN "categories" ELSE "search"

\* C7: in category and keyword mode the listing fetches are pages 1..N in
\* ascending order, each once, where N is maxPages (5 when not configured)
\* if allPages is set and else the pages value (1 when absent or falsy).
C7_PageCountPolicy ==
    (Listing /\ pc \in {"pages", "reviews", "done"}) =>
        /\ \A i \in 1 .. Len(pageLog) :
                pageLog[i].page = i /\ pageLog[i].path = ListingPath
        /\ Len(pageLog) <= (IF PolicyPageCount > 0 THEN PolicyPageCount ELSE 0)
        /\ LoopOver => Len(pageLog) = (IF PolicyPageCount > 0 THEN PolicyPageCount ELSE 0)

\* a finished run with allPages and no configured cap
C7_Witness ==
    /\ pc = "done"
    /\ Listing
    /\ params.allPages = Bool(TRUE)
    /\ config.maxPages = NoneV
    /\ Len(pageLog) = 5

-----------------------------------------------------------------------------

HasSourceUrl(c) == c.sourceUrl # None /\ c.sourceUrl # ""

\* C8: with includeReviews, a review fetch is issued only for companies of the
\* deduplicated result that have a source URL, exactly one per unique company,
\* and none for a company folded away as a duplicate.
C8_ReviewsAfterDedup ==
    (pc = "done" /\ IncludeReviews) =>
        /\ \A e \in 1 .. Len(reviewLog) :
                /\ HasSourceUrl(companies[reviewLog[e].i])
                /\ FirstPos(companies, companies[reviewLog[e].i]) = reviewLog[e].i
        /\ \A r \in 1 .. Len(result) :
                HasSourceUrl(result[r]) =>
                    Cardinality({e \in 1 .. Len(reviewLog) :
                        reviewLog[e].i = FirstPos(companies, result[r])}) = 1

-----------------------------------------------------------------------------

\* C9: for every returned company, lastReviews is the first min(3, |reviews|)
\* entries of its reviews in order, and empty when reviews is empty, as in
\* every run without includeReviews.
C9_LastReviewsPrefix ==
    /\ \A r \in 1 .. Len(result) :
        /\ Len(result[r].lastReviews)
                = (IF Len(result[r].reviews) < 3 THEN Len(result[r].reviews) ELSE 3)
        /\ \A k \in 1 .. Len(result[r].lastReviews) :
                result[r].lastReviews[k] = result[r].reviews[k]
    /\ (pc = "done" /\ ~IncludeReviews) =>
        \A r \in 1 .. Len(result) :
            result[r].reviews = <<>> /\ result[r].lastReviews = <<>>

\* a result with a company of more than three reviews and one of fewer
C9_Witness ==
    /\ pc = "done"
    /\ \E r \in 1 .. Len(result) : Len(result[r].reviews) > 3
    /\ \E r \in 1 .. Len(result) :
            Len(result[r].reviews) \in {1, 2} /\ result[r].lastReviews = result[r].reviews

-----------------------------------------------------------------------------

\* C10: with includeReviews, a failed review fetch does not abort the run:
\* the company stays in the result with no reviews attached, and the fetch
\* is still attempted for every company after it.
C10_ReviewFailureSkipped ==
    /\ pc = "aborted" => reviewLog = <<>>
    /\ (pc = "done" /\ IncludeReviews) =>
        \A e \in 1 .. Len(reviewLog) :
            reviewLog[e].failed =>
                /\ \E r \in 1 .. Len(result) :
                        /\ KeyOf(result[r]) = KeyOf(companies[reviewLog[e].i])
                        /\ result[r].reviews = <<>>
                        /\ result[r].lastReviews = <<>>
                /\ \A j \in (reviewLog[e].i + 1) .. Len(companies) :
                        HasSourceUrl(companies[j]) =>
                            \E e2 \in 1 .. Len(reviewLog) : reviewLog[e2].i = j

\* C17: every company returned by search_companies has a non-empty resolved
\* key; an extracted company whose ID, domain and source URL are all empty or
\* absent is left out of the result, so the result can be shorter than the
\* number of distinct extracted companies.
C17_NoEmptyKeyReturned ==
    pc = "done" =>
        /\ \A i \in 1 .. Len(result) :
                \/ result[i].ID \notin {"", None}
                \/ result[i].domain \notin {"", None}
                \/ result[i].sourceUrl \notin {"", None}
        /\ \A k \in 1 .. Len(companies) :
                (/\ companies[k].ID \in {"", None}
                 /\ companies[k].domain \in {"", None}
                 /\ companies[k].sourceUrl \in {"", None})
                    => \A i \in 1 .. Len(result) : result[i] # companies[k]

\* a finished run that extracted pairwise different companies, one of them
\* without ID, domain and source URL, and returned all but that one
C17_Witness ==
    /\ pc = "done"
    /\ \E k \in 1 .. Len(companies) :
            /\ companies[k].ID \in {"", None}
            /\ companies[k].domain \in {"", None}
            /\ companies[k].sourceUrl \in {"", None}
    /\ \A k, m \in 1 .. Len(companies) : k # m => KeyOf(companies[k]) # KeyOf(companies[m])
    /\ Len(result) >= 1
    /\ Len(result) = Len(companies) - 1

\* the review cards of a detail page, in document order
CardsInOrder(k) == [i \in 1 .. k |-> i]

\* the detail page was delivered with its cards
PageDelivered(resp) == resp.kind = "http" /\ resp.ok /\ ~resp.bad

\* C16: when maxReviewsPerCompany is given as N >= 0, the reviews attached to
\* a company are exactly the first min(N, k) of the k review cards found on
\* its detail page, in document order (N = 0 attaches none); when it is
\* absent, all k reviews are attached in document order.
C16_ReviewCap ==
    (pc \in {"attached", "fetch_raised"} /\ PageDelivered(rev.resp)) =>
        LET k == rev.resp.cards
            N == rev.max_reviews
        IN  /\ (N.t = "num" /\ N.v >= 0) =>
                    /\ pc = "attached"
                    /\ Len(rev.after.reviews) = (IF N.v < k THEN N.v ELSE k)
                    /\ \A i \in 1 .. Len(rev.after.reviews) :
                            rev.after.reviews[i] = CardsInOrder(k)[i]
            /\ N = NoneV =>
                    /\ pc = "attached"
                    /\ rev.after.reviews = CardsInOrder(k)

\* a cap of 2 on a page with MaxCards cards: the first two are attached
C16_Witness ==
    /\ pc = "attached"
    /\ PageDelivered(rev.resp)
    /\ rev.resp.cards = MaxCards
    /\ rev.max_reviews = Num(2)
    /\ rev.after.reviews = <<1, 2>>

\* C14: an unparseable minTrustScore or minReviews is treated as no
\* threshold: for every company list, filtering with the malformed value
\* returns the same result as filtering with that parameter absent, and raises
\* no error.
C14_MalformedIsAbsent ==
    (UnparseableFloat(fparams.minTrustScore) \/ UnparseableInt(fparams.minReviews)) =>
        /\ pc # "filter_raised"
        /\ pc = "compared" => fout.filtered = fout2

\* both thresholds unparseable, a list with a company that has neither rating
\* nor review count, and that company kept
C14_Witness ==
    /\ pc = "compared"
    /\ UnparseableFloat(fparams.minTrustScore)
    /\ UnparseableInt(fparams.minReviews)
    /\ \E i \in 1 .. Len(fin) :
            /\ fin[i].ratingValue = NoneV
            /\ fin[i].reviewCount = NoneV
            /\ \E j \in 1 .. Len(fout.filtered) : fout.filtered[j] = fin[i]
    /\ fout.filtered = fout2

C13_WithoutVerifiedOnly ==
    ~fparams.verifiedOnly =>
        /\ pc \notin {"filter_raised", "compared_after_raise", "number_raised"}
        /\ pc = "compared" => AllAsNumber(fout.filtered) = fout2

\* the stages run so far are the first stages of the program order
InStageOrder(log) ==
    /\ Len(log) <= Len(Stages)
    /\ \A i \in 1 .. Len(log) : log[i].stage = Stages[i]

\* C15: the command-line run executes its stages in the order load input,
\* load config, search, filter, export; a failure in any stage ends the run
\* with a non-zero exit and no later stage executes (nothing is exported after
\* a search or filter failure); when zero companies remain after filtering
\* the run only warns, still performs the export, and ends successfully.
C15_StagesInOrder ==
    /\ InStageOrder(cli.log)
    /\ \A i \in 1 .. Len(cli.log) :
            ~cli.log[i].ok =>
                /\ i = Len(cli.log)
                /\ cli.exit = "1"
                /\ pc = "exited"
                /\ cli.written = <<>>
    /\ pc = "exited" =>
            \/ cli.exit = "1" /\ ~cli.log[Len(cli.log)].ok
            \/ /\ cli.exit = "0"
               /\ Len(cli.log) = Len(Stages)
               /\ cli.written = <<fout.filtered>>
    /\ (Len(cli.log) >= 4 /\ cli.log[4].ok) => (cli.warned <=> fout.filtered = <<>>)
    /\ (Len(cli.log) < 4 \/ ~cli.log[Len(cli.log)].ok) => (cli.written = <<>>)
    /\ (pc = "main_export" /\ fout.filtered = <<>>) => ENABLED main_export

\* a run that found companies, filtered all of them away, warned, exported
\* the empty list and ended successfully
C15_Witness ==
    /\ pc = "exited"
    /\ cli.exit = "0"
    /\ fin # <<>>
    /\ fout.filtered = <<>>
    /\ cli.warned
    /\ cli.written = <<<<>>>>

\* a run whose filter stage failed: it ended with exit 1 before the export
C15_WitnessFilterFailure ==
    /\ pc = "exited"
    /\ cli.exit = "1"
    /\ Len(cli.log) = 4
    /\ ~cli.log[4].ok
    /\ cli.written = <<>>

\* the declared type is one string or a list of strings
TypeGiven(type) ==
    \/ type.k = "str"
    \/ type.k = "list" /\ \A i \in 1 .. Len(type.v) : type.v[i].t = "str"

\* ... and names Organization or LocalBusiness, in any letter case
TypeAllowed(type) ==
    /\ TypeGiven(type)
    /\ \E i \in 1 .. Len(type.v) :
            Lower(type.v[i].v) \in {"organization", "localbusiness"}

\* the type is missing, is no string and no list, or names other types only
TypeOutside(type) ==
    \/ type.k \in {"missing", "other"}
    \/ TypeGiven(type) /\ ~TypeAllowed(type)

\* the items handled so far, each with its outcome
ItemOutcomes ==
    UNION {{ext.yielded[s][i] : i \in 1 .. Len(ext.yielded[s])} :
            s \in 1 .. Len(ext.yielded)}

\* every field of the object holds a value of the expected kind
FieldsWellFormed(item) ==
    /\ OrElse(OrElse(item.url, item.atid), None) # NotAString
    /\ item.agg.k # "str"

\* C11: the Structured-Data Extractor yields a Company for a structured-data
\* object if and only if its declared type, given as one string or as a list
\* of strings and compared case-insensitively, includes Organization or
\* LocalBusiness; an object whose type is outside that set, or missing, yields
\* no Company and no error.
C11_TypeGate ==
    \A y \in ItemOutcomes :
        y.item.map =>
            /\ TypeAllowed(y.item.type) => y.out = "company"
            /\ TypeOutside(y.item.type) => y.out = "none"

\* the type gate on objects whose other fields are of the expected kinds
C11_TypeGateWellFormedFields ==
    \A y \in ItemOutcomes :
        (y.item.map /\ FieldsWellFormed(y.item)) =>
            /\ TypeAllowed(y.item.type) => y.out = "company"
            /\ TypeOutside(y.item.type) => y.out = "none"

\* a page on which a list-typed, differently cased object gave a Company and
\* an object of another type gave none
C11_WitnessWellFormedFields ==
    /\ pc = "parsed"
    /\ \E y \in ItemOutcomes :
            /\ y.item.type = TList(<<Str("Thing"), Str("LocalBusiness")>>)
            /\ y.out = "company"
    /\ \E y \in ItemOutcomes :
            /\ y.item.type = TStr("Person")
            /\ FieldsWellFormed(y.item)
            /\ y.out = "none"

\* C12: parse errors never abort: whatever the shape of a page's
\* structured-data blocks (malformed JSON, an item that is no mapping, an
\* aggregateRating or address that is no mapping, a url that is no string, a
\* non-string entry in a type list), the extractor returns a result list, with
\* the affected fields null or the affected items skipped, and raises no error.
C12_NeverRaises ==
    /\ pc # "parse_raised"
    /\ ~ext.raised
    /\ \A y \in ItemOutcomes : y.out # "raised"

\* the shapes the extractor does absorb: malformed JSON and items that are no
\* mapping are skipped, an address that is no mapping leaves the country null,
\* a falsy aggregateRating leaves rating and review count null
C12_AbsorbedShapes ==
    /\ \A s \in 1 .. Len(ext.yielded) :
            ext.page[s].json = "malformed" => ext.yielded[s] = <<>>
    /\ \A y \in ItemOutcomes : ~y.item.map => y.out = "none"
    /\ \A y \in ItemOutcomes :
            (/\ y.item.map
             /\ TypeAllowed(y.item.type)
             /\ y.item.address.k = "str"
             /\ y.item.agg.k = "falsy"
             /\ FieldsWellFormed(y.item)) =>
                /\ y.out = "company"
                /\ pc = "parsed" =>
                    \E k \in 1 .. Len(ext.companies) :
                        /\ ext.companies[k].ID = y.item.atid
                        /\ ext.companies[k].country = None
                        /\ ext.companies[k].ratingValue = NoneV
                        /\ ext.companies[k].reviewCount = NoneV

====
